---- MODULE Spec2Model ----
(***************************************************************************)
(* Bounty orchestrator: the LangGraph workflow built by _build_graph       *)
(* (agent.py), its phase nodes (nodes/*.py), the executor client           *)
(* (bobs_brain_client.py), the knowledge synchronizer (repo_sync.py) and   *)
(* the API handlers that start, approve and reject a workflow (api.py).    *)
(*                                                                         *)
(* A run is one background graph.ainvoke task.  It works on its own copy   *)
(* of the channel values and, after every node, puts a checkpoint (values, *)
(* pending node, node that wrote last) for its thread; the latest put is   *)
(* what get_state / update_state / a resuming run see.                     *)
(***************************************************************************)
EXTENDS Integers, Sequences, FiniteSets, TLC

\* ------------------------------------------------------------------ bounds
Ids == {"b1", "b2"}          \* bounty_id values used by callers
MaxRuns == 2                 \* background ainvoke tasks created in one behaviour
MaxUpdates == 2              \* approve / reject calls in one behaviour
MaxSyncs == 1                \* /api/repos/sync calls in one behaviour
MaxFaults == 1               \* executor calls and store set-ups that fail in one behaviour
MaxLearnRuns == 1            \* workflows started in the knowledge specification
MaxOutcomes == 2             \* record_outcome / record_learning calls
MaxCompeting == 2            \* largest competing_prs count an executor reply carries
StaleAfterDays == 7          \* default of is_stale's days parameter
ClockJump == 8               \* days the clock advances in one Tick
MaxNow == 8                  \* last day of the clock

\* ------------------------------------------------------- JSON-ish payloads
\* A JSON value found under "competing_prs": missing key, null, a string,
\* a boolean (n = 0 for false, 1 for true) or an integer n.
PyMissing == [t |-> "missing", n |-> 0]
PyNull == [t |-> "null", n |-> 0]
PyStr == [t |-> "str", n |-> 0]
PyInt(n) == [t |-> "int", n |-> n]
PyBool(n) == [t |-> "bool", n |-> n]
CompetingValues ==
    {PyMissing, PyNull, PyStr} \cup {PyInt(n) : n \in 0..MaxCompeting}
        \cup {PyBool(n) : n \in 0..1}
\* A JSON value found under "recommendation".
RecommendationValues == {"<missing>", "<null>", "proceed", "skip", "other"}

\* A payload as produced by result.get("response", {}): the key is absent
\* from the state, the value is not a dict, or it is a dict with the two
\* competition keys and possibly other keys.
Payload(kind, competing, recommendation, other) ==
    [kind |-> kind, competing |-> competing,
     recommendation |-> recommendation, other |-> other]
AbsentPayload == Payload("absent", PyMissing, "<missing>", FALSE)
NonDict == Payload("nondict", PyMissing, "<missing>", FALSE)
EmptyDict == Payload("dict", PyMissing, "<missing>", FALSE)
DataDict == Payload("dict", PyMissing, "<missing>", TRUE)
CompDict(c, r) == Payload("dict", c, r, FALSE)

\* ------------------------------------------------------- BountyState
NoProfileKey == [key |-> "absent", last_synced |-> -1]
NoneProfile == [key |-> "None", last_synced |-> -1]

AbsentState ==
    [ids |-> "absent", session_id |-> 0, phase |-> "absent",
     human_approved |-> "absent", issue_details |-> AbsentPayload,
     competition_analysis |-> AbsentPayload,
     implementation_plan |-> AbsentPayload,
     execution_result |-> AbsentPayload, repo_profile |-> NoProfileKey]

PhaseRank(p) ==
    CASE p = "A" -> 1 [] p = "B" -> 2 [] p = "C" -> 3 [] p = "D" -> 4
      [] p = "E" -> 5 [] p = "F" -> 6 [] OTHER -> 0

\* ------------------------------------------------------- routing predicates
PyEqZero(v) == v.t \in {"int", "bool"} /\ v.n = 0

\* Variant that looks at the competing count only.
should_proceed_count_only(state) ==
    LET analysis == IF state.competition_analysis.kind = "absent"
                    THEN EmptyDict ELSE state.competition_analysis
        isdict == analysis.kind = "dict"
        competing == IF isdict /\ analysis.competing.t # "missing"
                     THEN analysis.competing ELSE PyInt(0)
    IN IF PyEqZero(competing) THEN "continue" ELSE "skip"

should_proceed(state) ==
    LET analysis == IF state.competition_analysis.kind = "absent"
                    THEN EmptyDict ELSE state.competition_analysis
        isdict == analysis.kind = "dict"
        competing == IF isdict /\ analysis.competing.t # "missing"
                     THEN analysis.competing ELSE PyInt(0)
        recommendation == IF isdict /\ analysis.recommendation # "<missing>"
                          THEN analysis.recommendation ELSE "proceed"
    IN IF PyEqZero(competing) /\ recommendation # "skip"
       THEN "continue" ELSE "skip"

\* Variant that routes on the phase instead of the approval flag.
is_approved_on_phase(state) ==
    IF state.phase = "D" THEN "execute" ELSE "rejected"

is_approved(state) ==
    IF state.human_approved = "true" THEN "execute" ELSE "rejected"


\* ------------------------------------------------------- repo identifiers
\* Strings are sequences of tokens so that the replace() chain of
\* start_bounty_workflow / sync_repo_knowledge is computed, not assumed.
Repo == <<"o", "/", "r">>
GithubUrl(repo) == <<"https", ":", "/", "/", "github.com", "/">> \o repo

RECURSIVE ReplaceTok(_, _, _)
ReplaceTok(s, from, to) ==
    IF s = <<>> THEN <<>>
    ELSE <<IF Head(s) = from THEN to ELSE Head(s)>>
             \o ReplaceTok(Tail(s), from, to)

IsPrefix(p, s) == Len(p) <= Len(s) /\ SubSeq(s, 1, Len(p)) = p

RECURSIVE RemoveAll(_, _)
RemoveAll(s, p) ==
    IF s = <<>> THEN <<>>
    ELSE IF IsPrefix(p, s) THEN RemoveAll(SubSeq(s, Len(p) + 1, Len(s)), p)
    ELSE <<Head(s)>> \o RemoveAll(Tail(s), p)

\* x.replace("/", "_").replace(":", "_").replace("https___", "")
RepoId(x) ==
    RemoveAll(ReplaceTok(ReplaceTok(x, "/", "_"), ":", "_"),
              <<"https", "_", "_", "_">>)

SyncUrls == {Repo, GithubUrl(Repo)}
StoreKeys == {RepoId(u) : u \in SyncUrls}

\* ------------------------------------------------------- knowledge sync
\* A stored profile is {**response, "url", "last_synced"}: `body` is the
\* response it was built from and `gotchas` its "gotchas" list.
NoProfile ==
    [exists |-> FALSE, last_synced |-> -1, body |-> EmptyDict,
     gotchas |-> <<>>]

\* A last_synced value is the day of an ISO timestamp, NoStamp for None or
\* an empty string, BadStamp for a string that fromisoformat rejects.
NoStamp == -1
BadStamp == -2

\* Variant that counts a stamp exactly `days` days old as stale.
is_stale_inclusive(last_synced, days, clock) ==
    IF last_synced = NoStamp THEN TRUE
    ELSE IF last_synced = BadStamp THEN TRUE
    ELSE clock - last_synced >= days

\* is_stale(last_synced, days) evaluated when the clock reads `clock`: True
\* for a falsy value, True when parsing raises ValueError, otherwise
\* now - synced_at > timedelta(days).
is_stale(last_synced, days, clock) ==
    IF last_synced = NoStamp THEN TRUE
    ELSE IF last_synced = BadStamp THEN TRUE
    ELSE clock - last_synced > days

\* ------------------------------------------------------- executor client
OkReply(body) == [kind |-> "ok", body |-> body]
HttpError == [kind |-> "http_error", body |-> EmptyDict]
BadJson == [kind |-> "bad_json", body |-> EmptyDict]

\* What client.post and raise_for_status can end with when the transport
\* fails: no connection (httpx.ConnectError), a non-2xx status
\* (httpx.HTTPStatusError), or no answer within timeout=120.0
\* (httpx.TimeoutException).
ConnectError == [kind |-> "connect_error", body |-> EmptyDict]
HTTPStatusError == [kind |-> "status_error", body |-> EmptyDict]
TimeoutException == [kind |-> "timeout", body |-> EmptyDict]

\* isinstance(e, httpx.HTTPError)
IsHTTPError(kind) ==
    kind \in {"http_error", "connect_error", "status_error", "timeout"}

\* Variant of ask_bob whose except clause names httpx.HTTPStatusError.
ask_bob_status_only(reply) ==
    CASE reply.kind = "ok" ->
           [raised |-> FALSE, error |-> FALSE, response |-> reply.body]
      [] reply.kind = "status_error" ->
           [raised |-> FALSE, error |-> TRUE, response |-> EmptyDict]
      [] OTHER ->
           [raised |-> TRUE, error |-> FALSE, response |-> EmptyDict]

\* ask_bob: the reply's JSON on success, {"error", "response": {}} on an
\* httpx.HTTPError (connect failure, timeout, non-2xx); a body that is not
\* JSON makes response.json() raise, which the except clause does not catch.
ask_bob(reply) ==
    CASE reply.kind = "ok" ->
           [raised |-> FALSE, error |-> FALSE, response |-> reply.body]
      [] IsHTTPError(reply.kind) ->
           [raised |-> FALSE, error |-> TRUE, response |-> EmptyDict]
      [] OTHER ->
           [raised |-> TRUE, error |-> FALSE, response |-> EmptyDict]

PlainReplies == {OkReply(DataDict), HttpError, BadJson}
CompetitionReplies ==
    {OkReply(CompDict(PyInt(0), "proceed")),
     OkReply(CompDict(PyInt(MaxCompeting), "proceed")),
     OkReply(CompDict(PyInt(0), "skip")),
     HttpError}


\* ------------------------------------------------------- state
VARIABLES
    database_url,   \* TRUE iff DATABASE_URL is set (durable store configured)
    now,            \* the clock, in days
    repos,          \* durable store, namespace ("repos", key) -> profile
    ckpt,           \* latest checkpoint of every thread
    runs,           \* background ainvoke tasks, in creation order
    nRuns,          \* number of tasks created
    nUpdates,       \* number of approve / reject calls made
    nSyncs,         \* number of /api/repos/sync calls made
    nFaults,        \* number of executor calls and store set-ups that failed
    approveSeen,    \* history: approve_execution was called for the thread
    bounties,       \* durable store, namespace ("bounties", id) -> state
    learnings,      \* store, namespace ("learnings", category), key -> value
    nOutcomes,      \* number of record_outcome / record_learning calls made
    arg,            \* routing specification: the state handed to a predicate
    ret             \* routing specification: predicate applied and its result

vars == <<database_url, now, repos, ckpt, runs, nRuns, nUpdates, nSyncs,
          nFaults, approveSeen, bounties, learnings, nOutcomes, arg, ret>>

\* Learnings live under ("learnings", category) with a key "learn_<id>".
Categories == {"rejections", "successes"}
LearningKeys == {"learn_a", "learn_b"}
Lessons == {"lesson_1", "lesson_2"}
\* The value under ("bounties", id)/state: absent, or a state with the
\* outcome and phase keys the recorder writes.
NoBounty == [exists |-> FALSE, outcome |-> "none", phase |-> "none"]
NoLearning == "none"
NoLearnings == [c \in Categories, key \in LearningKeys |-> NoLearning]

NoCheckpoint ==
    [exists |-> FALSE, vals |-> AbsentState, next |-> "none", last |-> "none"]

NoRun ==
    [id |-> "none", kind |-> "none", gate |-> "none", st |-> "none",
     node |-> "none", vals |-> AbsentState, path |-> <<>>, reqs |-> <<>>]

\* Variant of initial_state that begins at the planning phase.
initial_state_planned(session) ==
    [ids |-> "set", session_id |-> session, phase |-> "C",
     human_approved |-> "false", issue_details |-> EmptyDict,
     competition_analysis |-> EmptyDict, implementation_plan |-> EmptyDict,
     execution_result |-> EmptyDict, repo_profile |-> NoneProfile]

\* initial_state of start_bounty_workflow; session stands for the uuid part
\* of session_id.
initial_state(session) ==
    [ids |-> "set", session_id |-> session, phase |-> "A",
     human_approved |-> "false", issue_details |-> EmptyDict,
     competition_analysis |-> EmptyDict, implementation_plan |-> EmptyDict,
     execution_result |-> EmptyDict, repo_profile |-> NoneProfile]

NoCall == [fn |-> "none", result |-> "none"]

Init ==
    /\ database_url \in BOOLEAN
    /\ now = 0
    /\ repos = [k \in StoreKeys |-> NoProfile]
    /\ ckpt = [i \in Ids |-> NoCheckpoint]
    /\ runs = [k \in 1..MaxRuns |-> NoRun]
    /\ nRuns = 0
    /\ nUpdates = 0
    /\ nSyncs = 0
    /\ nFaults = 0
    /\ approveSeen = [i \in Ids |-> FALSE]
    /\ bounties = [i \in Ids |-> NoBounty]
    /\ learnings = NoLearnings
    /\ nOutcomes = 0
    /\ arg = AbsentState
    /\ ret = NoCall

\* ------------------------------------------------------- graph wiring
\* The edges added in _build_graph: the node that follows `node` when the
\* state after it is `state` ("none" is END).
\* Variant wired with a plain edge from "approval" to "execute".
Successor_ungated(node, state) ==
    CASE node = "__start__" -> "analyze"
      [] node = "analyze" -> "check_competition"
      [] node = "check_competition" ->
           IF should_proceed(state) = "continue" THEN "create_plan" ELSE "none"
      [] node = "create_plan" -> "approval"
      [] node = "approval" -> "execute"
      [] OTHER -> "none"

\* Variant wired with a plain edge from "check_competition" to "create_plan".
Successor_noskip(node, state) ==
    CASE node = "__start__" -> "analyze"
      [] node = "analyze" -> "check_competition"
      [] node = "check_competition" -> "create_plan"
      [] node = "create_plan" -> "approval"
      [] node = "approval" ->
           IF is_approved(state) = "execute" THEN "execute" ELSE "none"
      [] OTHER -> "none"

Successor(node, state) ==
    CASE node = "__start__" -> "analyze"
      [] node = "analyze" -> "check_competition"
      [] node = "check_competition" ->
           IF should_proceed(state) = "continue" THEN "create_plan" ELSE "none"
      [] node = "create_plan" -> "approval"
      [] node = "approval" ->
           IF is_approved(state) = "execute" THEN "execute" ELSE "none"
      [] OTHER -> "none"

\* The channels of the graph are the keys of BountyState; `ids` stands for
\* bounty_id, issue_url, repo and repo_id, which are set together.
Channels == DOMAIN AbsentState

\* The value stored under `key` in a snapshot, "absent" when there is none.
Stored(vals, key) == IF key \in DOMAIN vals THEN vals[key] ELSE "absent"

\* Variant of the approve handler's partial state without the phase.
approve_values_flag_only == [human_approved |-> "true"]

\* The partial states the approve and reject handlers hand to update_state.
approve_values == [human_approved |-> "true", phase |-> "D"]
reject_values ==
    [human_approved |-> "false", phase |-> "F", outcome |-> "rejected"]

\* config = {"configurable": {"thread_id": bounty_id}}
thread_id(bounty_id) == bounty_id

\* Position of a node on the path analyze, check_competition, create_plan,
\* approval, execute laid out by the edges.
NodeRank(node) ==
    CASE node = "analyze" -> 1 [] node = "check_competition" -> 2
      [] node = "create_plan" -> 3 [] node = "approval" -> 4
      [] node = "execute" -> 5 [] OTHER -> 0

\* graph.update_state(config, values) without as_node: the values are written
\* as if by the node that ran last on the thread (the entry node when none
\* has), and the pending node becomes that node's successor on the new state.
\* A key of `values` that is not a channel is not written.
update_state(ck, values) ==
    LET new == [key \in Channels |->
                  IF key \in DOMAIN values THEN values[key] ELSE ck.vals[key]]
        as_node == IF ck.last = "none" THEN "__start__" ELSE ck.last
    IN [exists |-> TRUE, vals |-> new, next |-> Successor(as_node, new),
        last |-> ck.last]

\* ------------------------------------------------------- memory / sync
get_repo_profile(store, db, key) ==
    IF db /\ key \in DOMAIN store /\ store[key].exists
    THEN [key |-> "profile", last_synced |-> store[key].last_synced]
    ELSE NoneProfile

\* result.get("response", {}): the default stands in for a missing key.
ResultGet(result) ==
    IF result.response.kind = "absent" THEN EmptyDict ELSE result.response

\* The "gotchas" list an executor response carries: a response with data
\* names one upstream gotcha, an empty one has no such key.
UpstreamGotchas(body) == IF body.other THEN <<"upstream">> ELSE <<>>

\* Variant of sync_repo_knowledge that stores the response as it came.
sync_repo_knowledge_unchecked(store, db, url, reply, clock) ==
    LET result == ask_bob(reply)
        response == ResultGet(result)
    IN IF result.raised
       THEN [raised |-> TRUE, key |-> <<>>, store |-> store]
       ELSE [raised |-> response.kind # "dict", key |-> RepoId(url),
             store |-> IF db
                       THEN [store EXCEPT ![RepoId(url)] =
                               [exists |-> TRUE, last_synced |-> clock,
                                body |-> response,
                                gotchas |-> UpstreamGotchas(response)]]
                       ELSE store]

\* sync_repo_knowledge(repo_url, store) at clock reading `clock`: a response
\* that is not a dict is replaced by {}, the profile is put under
\* ("repos", repo_id) and repo_id is returned.  Without a DATABASE_URL
\* get_store() hands out a fresh in-memory store, so the write is not seen
\* by anyone else.
sync_repo_knowledge(store, db, url, reply, clock) ==
    LET result == ask_bob(reply)
        got == ResultGet(result)
        response == IF got.kind = "dict" THEN got ELSE EmptyDict
    IN IF result.raised
       THEN [raised |-> TRUE, key |-> <<>>, store |-> store]
       ELSE [raised |-> FALSE, key |-> RepoId(url),
             store |-> IF db
                       THEN [store EXCEPT ![RepoId(url)] =
                               [exists |-> TRUE, last_synced |-> clock,
                                body |-> response,
                                gotchas |-> UpstreamGotchas(response)]]
                       ELSE store]

\* ------------------------------------------------------- phase nodes
\* Each node yields whether it raised and the state it returns.
analyze_bounty(state, profile, reply) ==
    LET result == ask_bob(reply)
    IN [raised |-> result.raised,
        vals |-> [state EXCEPT !.issue_details = ResultGet(result),
                               !.repo_profile = profile,
                               !.phase = "B"]]

check_competition(state, reply) ==
    LET result == ask_bob(reply)
    IN [raised |-> state.ids = "absent" \/ result.raised,
        vals |-> [state EXCEPT !.competition_analysis = ResultGet(result)]]

create_plan(state, reply) ==
    LET result == ask_bob(reply)
    IN [raised |-> state.ids = "absent" \/ result.raised,
        vals |-> [state EXCEPT !.implementation_plan = ResultGet(result),
                               !.phase = "C"]]

\* state.get("repo_profile", {}).get(...) raises on a stored None, and
\* state.get("issue_details", {}).get(...) on a value that is not a dict.
execute_via_bob(state, reply) ==
    LET result == ask_bob(reply)
    IN [raised |-> \/ state.ids = "absent"
                   \/ state.repo_profile.key = "None"
                   \/ state.issue_details.kind = "nondict"
                   \/ result.raised,
        vals |-> [state EXCEPT !.execution_result = ResultGet(result),
                               !.phase = "E"]]


\* ------------------------------------------------------- API handlers
Unrouted == UNCHANGED <<arg, ret, bounties, learnings, nOutcomes>>

\* start_bounty_workflow: builds initial_state and schedules
\* graph.ainvoke(initial_state, config) as a background task.
start_bounty_workflow(i) ==
    /\ nRuns < MaxRuns
    /\ nRuns' = nRuns + 1
    /\ runs' = [runs EXCEPT ![nRuns + 1] =
                  [id |-> thread_id(i), kind |-> "init", gate |-> "none",
                   st |-> "queued", node |-> "none",
                   vals |-> initial_state(nRuns + 1),
                   path |-> <<>>, reqs |-> <<>>]]
    /\ UNCHANGED <<database_url, now, repos, ckpt, nUpdates, nSyncs,
                   nFaults, approveSeen>>
    /\ Unrouted

\* approve_execution: update_state({"human_approved": True, "phase": "D"})
\* and a background graph.ainvoke(None, config).  The task remembers in
\* `gate` which node was pending when the approval arrived.
approve_execution(i) ==
    /\ nUpdates < MaxUpdates
    /\ nRuns < MaxRuns
    /\ nUpdates' = nUpdates + 1
    /\ nRuns' = nRuns + 1
    /\ ckpt' = [ckpt EXCEPT ![thread_id(i)] =
                  update_state(ckpt[thread_id(i)], approve_values)]
    /\ runs' = [runs EXCEPT ![nRuns + 1] =
                  [id |-> thread_id(i), kind |-> "resume",
                   gate |-> ckpt[thread_id(i)].next,
                   st |-> "queued", node |-> "none", vals |-> AbsentState,
                   path |-> <<>>, reqs |-> <<>>]]
    /\ approveSeen' = [approveSeen EXCEPT ![thread_id(i)] = TRUE]
    /\ UNCHANGED <<database_url, now, repos, nSyncs, nFaults>>
    /\ Unrouted

\* reject_execution: update_state({"human_approved": False, "phase": "F",
\* "outcome": "rejected"}); "outcome" is not a key of BountyState and is not
\* stored.
reject_execution(i) ==
    /\ nUpdates < MaxUpdates
    /\ nUpdates' = nUpdates + 1
    /\ ckpt' = [ckpt EXCEPT ![thread_id(i)] =
                  update_state(ckpt[thread_id(i)], reject_values)]
    /\ UNCHANGED <<database_url, now, repos, runs, nRuns, nSyncs,
                   nFaults, approveSeen>>
    /\ Unrouted

\* The executor calls of one step, given their replies: the failing ones are
\* counted against MaxFaults.
RECURSIVE FaultCount(_)
FaultCount(replies) ==
    IF replies = <<>> THEN 0
    ELSE (IF Head(replies).kind = "ok" THEN 0 ELSE 1)
           + FaultCount(Tail(replies))

Faults(replies) ==
    /\ nFaults + FaultCount(replies) <= MaxFaults
    /\ nFaults' = nFaults + FaultCount(replies)

\* graph.get_state(config): the thread's latest checkpoint.  A thread that
\* has none yields an empty snapshot (no values, nothing pending), not an
\* exception.
get_state(ck) == [raised |-> FALSE, next |-> ck.next, values |-> ck.vals]

\* Variant that answers "complete" from the phase instead of the pending
\* nodes.
get_bounty_status_by_phase(i) ==
    LET state == get_state(ckpt[thread_id(i)])
    IN [status_code |-> 200,
        current_node |-> IF state.values.phase = "F" THEN "complete"
                         ELSE state.next,
        phase |-> IF state.values.phase = "absent" THEN "unknown"
                  ELSE state.values.phase,
        human_approved |-> state.values.human_approved = "true"]

\* get_bounty_status: the first pending node of the thread's checkpoint, or
\* "complete"; 404 only when get_state raises.
get_bounty_status(i) ==
    LET state == get_state(ckpt[thread_id(i)])
    IN IF state.raised
       THEN [status_code |-> 404, current_node |-> "none",
             phase |-> "none", human_approved |-> FALSE]
       ELSE [status_code |-> 200,
             current_node |-> IF state.next # "none" THEN state.next
                              ELSE "complete",
             phase |-> IF state.values.phase = "absent" THEN "unknown"
                       ELSE state.values.phase,
             human_approved |-> state.values.human_approved = "true"]

\* get_store(): a PostgresStore when DATABASE_URL is set, otherwise a new
\* InMemoryStore on every call.
get_store(db) == IF db THEN "PostgresStore" ELSE "InMemoryStore"

\* _is_store_configured: not isinstance(store, dict)
is_store_configured(store) == store # "dict"

\* store.aget(("bounties", bounty_id), "state") on the store the handler
\* got: the durable namespace, or nothing in a new in-memory store.  The
\* value is a store Item (which is not a mapping) or None.
bounty_item(db, i) == IF db THEN bounties[i] ELSE NoBounty

\* record_submission_outcome: returns at once when the bounty is not found
\* (learn.py:36-37); on a found item, bounty.get raises (a store Item is
\* not a mapping), so the branches below it (executor call, learning put,
\* gotcha append, bounty put) are never entered.  Yields whether it raised,
\* the executor calls it made and the three namespaces after it.
record_submission_outcome(bounty, outcome, feedback, key, lesson) ==
    [raised |-> bounty.exists, calls |-> 0, learnings |-> learnings,
     repos |-> repos, bounties |-> bounties]

\* The answer of the record_outcome handler: 503 when the store is not
\* configured, 500 when record_submission_outcome raises, otherwise
\* {"status": "recorded"}.
record_outcome_response(db, result) ==
    IF ~is_store_configured(get_store(db))
    THEN [status_code |-> 503, status |-> "store not configured"]
    ELSE IF result.raised THEN [status_code |-> 500, status |-> "error"]
    ELSE [status_code |-> 200, status |-> "recorded"]

Outcomes == {"merged", "rejected", "stale", "abandoned"}

\* record_outcome: POST /api/bounties/{bounty_id}/outcome.  `key` and
\* `lesson` stand for the uuid and the executor's lesson a learning would
\* get.
record_outcome(i, outcome, feedback, key, lesson) ==
    LET result == record_submission_outcome(bounty_item(database_url, i),
                                            outcome, feedback, key, lesson)
        configured == is_store_configured(get_store(database_url))
    IN /\ nOutcomes < MaxOutcomes
       /\ nOutcomes' = nOutcomes + 1
       /\ learnings' = IF configured THEN result.learnings ELSE learnings
       /\ repos' = IF configured THEN result.repos ELSE repos
       /\ bounties' = IF configured THEN result.bounties ELSE bounties
       /\ ret' = [fn |-> "record_outcome", id |-> i, outcome |-> outcome,
                  feedback |-> feedback, lesson |-> lesson,
                  profiles |-> {k \in StoreKeys : repos[k].exists},
                  calls |-> result.calls,
                  result |-> record_outcome_response(database_url, result)]
       /\ UNCHANGED <<database_url, now, ckpt, runs, nRuns, nUpdates,
                      nSyncs, nFaults, approveSeen, arg>>

\* MemoryManager.save_bounty_state: store.aput under ("bounties", id); no
\* handler or node calls it.  Only a durable store keeps the item where the
\* record_outcome handler's own get_store() can see it.
save_bounty_state(i) ==
    /\ nOutcomes < MaxOutcomes
    /\ nOutcomes' = nOutcomes + 1
    /\ bounties' = IF database_url
                   THEN [bounties EXCEPT ![i] =
                           [exists |-> TRUE, outcome |-> "none",
                            phase |-> "A"]]
                   ELSE bounties
    /\ ret' = [fn |-> "save_bounty_state", id |-> i]
    /\ UNCHANGED <<database_url, now, repos, ckpt, runs, nRuns, nUpdates,
                   nSyncs, nFaults, approveSeen, learnings, arg>>

\* MemoryManager.record_learning: store.aput under ("learnings", category)
\* with the key "learn_<learning_id>" the caller chose.
record_learning(category, key, lesson) ==
    /\ nOutcomes < MaxOutcomes
    /\ nOutcomes' = nOutcomes + 1
    /\ learnings' = [learnings EXCEPT ![<<category, key>>] = lesson]
    /\ ret' = [fn |-> "record_learning", result |-> key]
    /\ UNCHANGED <<database_url, now, repos, ckpt, runs, nRuns, nUpdates,
                   nSyncs, nFaults, approveSeen, bounties, arg>>

\* The answer of the /api/repos/sync handler: 503 when the store is not
\* configured, otherwise {"status": "syncing"}.
sync_repo_response(db) ==
    IF ~is_store_configured(get_store(db))
    THEN [status_code |-> 503, status |-> "store not configured"]
    ELSE [status_code |-> 200, status |-> "syncing"]

\* sync_repo: /api/repos/sync runs sync_repo_knowledge(repo_url, store).
sync_repo(url, reply) ==
    /\ nSyncs < MaxSyncs
    /\ nSyncs' = nSyncs + 1
    /\ Faults(<<reply>>)
    /\ repos' = sync_repo_knowledge(repos, database_url, url, reply, now).store
    /\ UNCHANGED <<database_url, now, ckpt, runs, nRuns, nUpdates,
                   approveSeen>>
    /\ Unrouted

\* Time passes.
Tick ==
    /\ now + ClockJump <= MaxNow
    /\ now' = now + ClockJump
    /\ UNCHANGED <<database_url, repos, ckpt, runs, nRuns, nUpdates, nSyncs,
                   nFaults, approveSeen>>
    /\ Unrouted

\* ------------------------------------------------------- the engine
\* One bob.ask_bob call as the executor sees it: which prompt it carries
\* and its session_id (None when the caller passes none).
NoSession == 0
Call(prompt, session) == [prompt |-> prompt, session_id |-> session]
CallPrompts(reqs) == {reqs[j].prompt : j \in DOMAIN reqs}

\* A task that has ended keeps only what it did.
Ended(r, st, path, reqs) ==
    [r EXCEPT !.st = st, !.node = "none", !.vals = AbsentState,
              !.path = path, !.reqs = reqs]

\* Variant in which a resuming task starts over at the entry node.
RunBegin_restart(k) ==
    LET r == runs[k]
    IN /\ r.st = "queued"
       /\ IF r.kind = "init"
          THEN /\ ckpt' = [ckpt EXCEPT ![r.id] =
                             [exists |-> TRUE, vals |-> r.vals,
                              next |-> "analyze", last |-> "__start__"]]
               /\ runs' = [runs EXCEPT ![k] =
                             [r EXCEPT !.st = "running", !.node = "analyze"]]
          ELSE /\ UNCHANGED ckpt
               /\ runs' = [runs EXCEPT ![k] =
                             IF ckpt[r.id].next = "none"
                             THEN Ended(r, "done", <<>>, <<>>)
                             ELSE [r EXCEPT !.st = "running",
                                            !.vals = ckpt[r.id].vals,
                                            !.node = "analyze"]]
       /\ UNCHANGED <<database_url, now, repos, nRuns, nUpdates, nSyncs,
                      nFaults, approveSeen>>
       /\ Unrouted

\* A background task starts: ainvoke(initial_state) writes the input over
\* the thread's channels and schedules the entry node; ainvoke(None) loads
\* the latest checkpoint and continues at its pending node, if any.
RunBegin(k) ==
    LET r == runs[k]
    IN /\ r.st = "queued"
       /\ IF r.kind = "init"
          THEN /\ ckpt' = [ckpt EXCEPT ![r.id] =
                             [exists |-> TRUE, vals |-> r.vals,
                              next |-> "analyze", last |-> "__start__"]]
               /\ runs' = [runs EXCEPT ![k] =
                             [r EXCEPT !.st = "running", !.node = "analyze"]]
          ELSE /\ UNCHANGED ckpt
               /\ runs' = [runs EXCEPT ![k] =
                             IF ckpt[r.id].next = "none"
                             THEN Ended(r, "done", <<>>, <<>>)
                             ELSE [r EXCEPT !.st = "running",
                                            !.vals = ckpt[r.id].vals,
                                            !.node = ckpt[r.id].next]]
       /\ UNCHANGED <<database_url, now, repos, nRuns, nUpdates, nSyncs,
                      nFaults, approveSeen>>
       /\ Unrouted

\* Variant in which a put reaches the checkpoint of every thread.
Commit_all_threads(k, n, out, calls) ==
    LET r == runs[k]
        nxt == Successor(n, out.vals)
    IN IF out.raised
       THEN /\ runs' = [runs EXCEPT ![k] =
                          Ended(r, "failed", r.path, r.reqs \o calls)]
            /\ UNCHANGED ckpt
       ELSE /\ runs' = [runs EXCEPT ![k] =
                          IF nxt = "none"
                          THEN Ended(r, "done", Append(r.path, n),
                                     r.reqs \o calls)
                          ELSE [r EXCEPT !.node = nxt,
                                         !.vals = out.vals,
                                         !.path = Append(r.path, n),
                                         !.reqs = r.reqs \o calls]]
            /\ ckpt' = [j \in Ids |->
                          [exists |-> TRUE, vals |-> out.vals,
                           next |-> nxt, last |-> n]]

\* The engine's handling of a finished node: an exception aborts the task
\* and leaves the checkpoint alone; otherwise the returned state, the node
\* and its successor are put as the thread's latest checkpoint.
Commit(k, n, out, calls) ==
    LET r == runs[k]
        nxt == Successor(n, out.vals)
    IN IF out.raised
       THEN /\ runs' = [runs EXCEPT ![k] =
                          Ended(r, "failed", r.path, r.reqs \o calls)]
            /\ UNCHANGED ckpt
       ELSE /\ runs' = [runs EXCEPT ![k] =
                          IF nxt = "none"
                          THEN Ended(r, "done", Append(r.path, n),
                                     r.reqs \o calls)
                          ELSE [r EXCEPT !.node = nxt,
                                         !.vals = out.vals,
                                         !.path = Append(r.path, n),
                                         !.reqs = r.reqs \o calls]]
            /\ ckpt' = [ckpt EXCEPT ![r.id] =
                          [exists |-> TRUE, vals |-> out.vals,
                           next |-> nxt, last |-> n]]

Pending(k, n) == runs[k].st = "running" /\ runs[k].node = n

EngineFrame == UNCHANGED <<database_url, now, nRuns, nUpdates, nSyncs,
                           approveSeen>>



\* How the durable store behaves during one analyze: it works, its
\* construction raises (get_store re-raises what PostgresStore raises), or
\* it is built but every access to it raises.
StoreModes == {"up", "init_fails", "use_fails"}

\* The analyze node.  _get_memory() and get_store() run before any try
\* block, so a store that cannot be built makes the node raise before it
\* has called anything.  With a store whose accesses raise, get_repo_profile
\* yields None, the sync asks the executor and its put raises inside the
\* node's try, the learnings search raises inside its try, and the node goes
\* on without a profile.
StepAnalyze(k, mode, sreply, reply) ==
    LET state == runs[k].vals
        repo_id == RepoId(Repo)
        p0 == IF mode = "up"
              THEN get_repo_profile(repos, database_url, repo_id)
              ELSE NoneProfile
        need == p0.key = "None"
                  \/ is_stale(p0.last_synced, StaleAfterDays, now)
        sync == IF mode = "up"
                THEN sync_repo_knowledge(repos, database_url,
                                         GithubUrl(Repo), sreply, now)
                ELSE [raised |-> TRUE, key |-> <<>>, store |-> repos]
        store1 == IF need THEN sync.store ELSE repos
        p1 == IF need /\ ~sync.raised
              THEN get_repo_profile(store1, database_url, repo_id) ELSE p0
        broken == IF mode = "up" THEN 0 ELSE 1
    IN /\ Pending(k, "analyze")
       /\ mode = "up" \/ database_url
       /\ IF mode = "init_fails"
          THEN /\ sreply = OkReply(DataDict) /\ reply = OkReply(DataDict)
               /\ nFaults < MaxFaults
               /\ nFaults' = nFaults + 1
               /\ Commit(k, "analyze", [raised |-> TRUE, vals |-> state],
                         <<>>)
               /\ UNCHANGED repos
          ELSE IF state.ids = "absent"
          THEN /\ mode = "up"
               /\ Commit(k, "analyze", [raised |-> TRUE, vals |-> state],
                         <<>>)
               /\ UNCHANGED <<repos, nFaults>>
          ELSE \* without a sync there is no sync reply to choose
               /\ need \/ sreply = OkReply(DataDict)
               /\ LET failed == broken
                                  + FaultCount(IF need THEN <<sreply, reply>>
                                               ELSE <<reply>>)
                  IN /\ nFaults + failed <= MaxFaults
                     /\ nFaults' = nFaults + failed
               /\ Commit(k, "analyze", analyze_bounty(state, p1, reply),
                         IF need
                         THEN <<Call("sync", NoSession),
                                Call("analyze", state.session_id)>>
                         ELSE <<Call("analyze", state.session_id)>>)
               /\ repos' = store1
       /\ EngineFrame
       /\ Unrouted

StepCheckCompetition(k, reply) ==
    /\ Pending(k, "check_competition")
    /\ Commit(k, "check_competition",
              check_competition(runs[k].vals, reply),
              IF runs[k].vals.ids = "absent" THEN <<>>
              ELSE <<Call("competition", runs[k].vals.session_id)>>)
    /\ Faults(<<reply>>)
    /\ UNCHANGED repos
    /\ EngineFrame
    /\ Unrouted

StepCreatePlan(k, reply) ==
    /\ Pending(k, "create_plan")
    /\ Commit(k, "create_plan", create_plan(runs[k].vals, reply),
              IF runs[k].vals.ids = "absent" THEN <<>>
              ELSE <<Call("plan", runs[k].vals.session_id)>>)
    /\ Faults(<<reply>>)
    /\ UNCHANGED repos
    /\ EngineFrame
    /\ Unrouted

\* The "approval" node is lambda s: s.
StepApproval(k) ==
    /\ Pending(k, "approval")
    /\ Commit(k, "approval", [raised |-> FALSE, vals |-> runs[k].vals], <<>>)
    /\ UNCHANGED <<repos, nFaults>>
    /\ EngineFrame
    /\ Unrouted

StepExecute(k, reply) ==
    LET state == runs[k].vals
        early == \/ state.ids = "absent"
                 \/ state.repo_profile.key = "None"
                 \/ state.issue_details.kind = "nondict"
    IN /\ Pending(k, "execute")
       /\ Commit(k, "execute", execute_via_bob(state, reply),
                 IF early THEN <<>>
                 ELSE <<Call("implement", state.session_id)>>)
       /\ Faults(<<reply>>)
       /\ UNCHANGED repos
       /\ EngineFrame
       /\ Unrouted

Next ==
    \/ \E i \in Ids : start_bounty_workflow(i)
    \/ \E i \in Ids : approve_execution(i)
    \/ \E i \in Ids : reject_execution(i)
    \/ \E u \in SyncUrls, reply \in PlainReplies : sync_repo(u, reply)
    \/ Tick
    \/ \E k \in 1..MaxRuns : RunBegin(k)
    \/ \E k \in 1..MaxRuns, mode \in StoreModes, sreply \in PlainReplies,
          reply \in PlainReplies :
         StepAnalyze(k, mode, sreply, reply)
    \/ \E k \in 1..MaxRuns, reply \in CompetitionReplies :
         StepCheckCompetition(k, reply)
    \/ \E k \in 1..MaxRuns, reply \in PlainReplies : StepCreatePlan(k, reply)
    \/ \E k \in 1..MaxRuns : StepApproval(k)
    \/ \E k \in 1..MaxRuns, reply \in PlainReplies : StepExecute(k, reply)

Spec == Init /\ [][Next]_vars


\* ------------------------------------------------------- routing predicates
\* applied to arbitrary states
CompetitionValues ==
    {AbsentPayload, NonDict}
      \cup {CompDict(c, r) : c \in CompetingValues, r \in RecommendationValues}

RoutingStates ==
    {[AbsentState EXCEPT !.competition_analysis = c, !.human_approved = a,
                         !.phase = p] :
        c \in CompetitionValues,
        a \in {"absent", "true", "false"},
        p \in {"absent", "A", "B", "C", "D", "E", "F"}}

InitRouting ==
    /\ database_url = FALSE
    /\ now = 0
    /\ repos = [k \in StoreKeys |-> NoProfile]
    /\ ckpt = [i \in Ids |-> NoCheckpoint]
    /\ runs = [k \in 1..MaxRuns |-> NoRun]
    /\ nRuns = 0
    /\ nUpdates = 0
    /\ nSyncs = 0
    /\ nFaults = 0
    /\ approveSeen = [i \in Ids |-> FALSE]
    /\ bounties = [i \in Ids |-> NoBounty]
    /\ learnings = NoLearnings
    /\ nOutcomes = 0
    /\ arg \in RoutingStates
    /\ ret = NoCall

WorkflowIdle ==
    UNCHANGED <<database_url, now, repos, ckpt, runs, nRuns, nUpdates,
                nSyncs, nFaults, approveSeen, bounties, learnings,
                nOutcomes>>

CallShouldProceed ==
    /\ ret' = [fn |-> "should_proceed", result |-> should_proceed(arg)]
    /\ UNCHANGED arg
    /\ WorkflowIdle

CallIsApproved ==
    /\ ret' = [fn |-> "is_approved", result |-> is_approved(arg)]
    /\ UNCHANGED arg
    /\ WorkflowIdle

NextRouting == CallShouldProceed \/ CallIsApproved

SpecRouting == InitRouting /\ [][NextRouting]_vars


\* ------------------------------------------------------- is_stale applied
\* to arbitrary stamps
Stamps == {NoStamp, BadStamp} \cup (0..MaxNow)
DaysValues == {0, 1, StaleAfterDays}

InitStale ==
    /\ database_url = FALSE
    /\ now \in 0..MaxNow
    /\ repos = [k \in StoreKeys |-> NoProfile]
    /\ ckpt = [i \in Ids |-> NoCheckpoint]
    /\ runs = [k \in 1..MaxRuns |-> NoRun]
    /\ nRuns = 0
    /\ nUpdates = 0
    /\ nSyncs = 0
    /\ nFaults = 0
    /\ approveSeen = [i \in Ids |-> FALSE]
    /\ bounties = [i \in Ids |-> NoBounty]
    /\ learnings = NoLearnings
    /\ nOutcomes = 0
    /\ arg \in [last_synced : Stamps, days : DaysValues]
    /\ ret = NoCall

\* is_stale(last_synced, days)
CallIsStale ==
    /\ ret' = [fn |-> "is_stale", days |-> arg.days,
               result |-> is_stale(arg.last_synced, arg.days, now)]
    /\ UNCHANGED arg
    /\ WorkflowIdle

\* is_stale(last_synced), days left at its default
CallIsStaleDefault ==
    /\ ret' = [fn |-> "is_stale", days |-> StaleAfterDays,
               result |-> is_stale(arg.last_synced, StaleAfterDays, now)]
    /\ UNCHANGED arg
    /\ WorkflowIdle

NextStale == CallIsStale \/ CallIsStaleDefault

SpecStale == InitStale /\ [][NextStale]_vars


\* ------------------------------------------------------- the executor
\* client applied to every outcome of the HTTP exchange
TransportFailures == {HttpError, ConnectError, HTTPStatusError, TimeoutException}

ClientReplies ==
    {OkReply(body) : body \in {EmptyDict, DataDict, NonDict, AbsentPayload}}
      \cup {OkReply(c) : c \in CompetitionValues}
      \cup TransportFailures \cup {BadJson}

Prompts == {"sync", "analyze", "competition", "plan", "implement"}

InitClient ==
    /\ database_url = FALSE
    /\ now = 0
    /\ repos = [k \in StoreKeys |-> NoProfile]
    /\ ckpt = [i \in Ids |-> NoCheckpoint]
    /\ runs = [k \in 1..MaxRuns |-> NoRun]
    /\ nRuns = 0
    /\ nUpdates = 0
    /\ nSyncs = 0
    /\ nFaults = 0
    /\ approveSeen = [i \in Ids |-> FALSE]
    /\ bounties = [i \in Ids |-> NoBounty]
    /\ learnings = NoLearnings
    /\ nOutcomes = 0
    /\ arg \in [reply : ClientReplies, prompt : Prompts]
    /\ ret = NoCall

\* One bob.ask_bob(prompt, ...) call whose HTTP exchange ends with
\* arg.reply.
CallAskBob ==
    /\ ret = NoCall
    /\ ret' = [fn |-> "ask_bob", result |-> ask_bob(arg.reply)]
    /\ UNCHANGED arg
    /\ WorkflowIdle

NextClient == CallAskBob

SpecClient == InitClient /\ [][NextClient]_vars

\* ------------------------------------------------------- knowledge and
\* learning: the handlers and the node that use the memory store
SyncReplies ==
    {OkReply(DataDict), OkReply(NonDict), OkReply(AbsentPayload), HttpError}

NextLearn ==
    \/ \E i \in Ids : nRuns < MaxLearnRuns /\ start_bounty_workflow(i)
    \/ \E k \in 1..MaxRuns : RunBegin(k)
    \/ \E k \in 1..MaxRuns, mode \in StoreModes, sreply \in PlainReplies,
          reply \in PlainReplies :
         StepAnalyze(k, mode, sreply, reply)
    \/ \E u \in SyncUrls, reply \in SyncReplies : sync_repo(u, reply)
    \/ Tick
    \/ \E i \in Ids, outcome \in Outcomes, feedback \in BOOLEAN,
          key \in LearningKeys, lesson \in Lessons :
         record_outcome(i, outcome, feedback, key, lesson)
    \/ \E category \in Categories, key \in LearningKeys, lesson \in Lessons :
         record_learning(category, key, lesson)
    \/ \E i \in Ids : save_bounty_state(i)

SpecLearn == Init /\ [][NextLearn]_vars


\* ======================================================= properties
Range(f) == {f[x] : x \in DOMAIN f}
RunIds == 1..MaxRuns
Stepped(k) == runs[k].st = "running" /\ runs'[k] # runs[k]

\* C1: the phase stored for an instance that a start has begun never moves
\* to a lower rank in the order A < B < C < D < E < F, whatever start, node
\* steps, approve and reject do.
C1_PhaseNeverRegresses ==
    [][\A i \in Ids :
         ckpt[i].last # "none"
           => PhaseRank(ckpt'[i].vals.phase)
                >= PhaseRank(ckpt[i].vals.phase)]_vars

\* C2: a task begun by start halts once the approval node is pending: it
\* makes no further step of its own (execute or termination need a distinct
\* invocation after approve or reject).
C2_ApprovalGateSuspends ==
    [][\A k \in RunIds :
         (runs[k].kind = "init" /\ Pending(k, "approval"))
           => runs'[k] = runs[k]]_vars

\* C3: the execute node is pending or has run only for a thread on which
\* approve_execution was called, and the state it runs on has
\* human_approved true.
C3_ExecuteOnlyApproved ==
    /\ \A k \in RunIds :
         /\ Pending(k, "execute")
              => /\ runs[k].vals.human_approved = "true"
                 /\ approveSeen[runs[k].id]
         /\ ("execute" \in Range(runs[k].path)
               \/ "implement" \in CallPrompts(runs[k].reqs))
              => approveSeen[runs[k].id]
    /\ \A i \in Ids :
         ckpt[i].next = "execute"
           => ckpt[i].vals.human_approved = "true" /\ approveSeen[i]

C3_Witness ==
    \E k \in RunIds :
        /\ "execute" \in Range(runs[k].path)
        /\ "approval" \in Range(runs[k].path)
        /\ approveSeen[runs[k].id]

\* C4: a node step whose executor call failed is aborted: the thread's
\* checkpoint stays as it was (no empty payload is committed, the phase does
\* not advance).  For analyze, whose knowledge sync may fail harmlessly, the
\* step at least commits no empty issue_details.
C4_ExecutorFailureAborts ==
    [][\A k \in RunIds :
         (Stepped(k) /\ nFaults' > nFaults)
           => \/ ckpt'[runs[k].id] = ckpt[runs[k].id]
              \/ /\ runs[k].node = "analyze"
                 /\ ckpt'[runs[k].id].vals.issue_details # EmptyDict]_vars

\* C5: once the task created by an approve that found the approval node
\* pending has ended, with no executor call having failed, the instance is
\* in phase F with execution_result populated and get_status says
\* "complete".
C5_ApprovedRunReachesF ==
    \A k \in RunIds :
        (/\ runs[k].kind = "resume"
         /\ runs[k].gate = "approval"
         /\ runs[k].st \in {"done", "failed"}
         /\ nFaults = 0)
          => /\ ckpt[runs[k].id].vals.phase = "F"
             /\ ckpt[runs[k].id].vals.execution_result = DataDict
             /\ get_bounty_status(runs[k].id).current_node = "complete"

\* C6: while an instance is in phase E no step changes its human_approved.
C6_ApprovedFrozenAfterE ==
    [][\A i \in Ids :
         ckpt[i].vals.phase = "E"
           => ckpt'[i].vals.human_approved = ckpt[i].vals.human_approved]_vars

CarriesBoth(c) ==
    /\ c.kind = "dict"
    /\ c.competing.t = "int"
    /\ c.recommendation \in {"proceed", "skip", "other"}

C8_ShouldProceedIff ==
    (ret.fn = "should_proceed" /\ CarriesBoth(arg.competition_analysis))
      => /\ ret.result \in {"skip", "continue"}
         /\ ret.result = "skip"
              <=> \/ arg.competition_analysis.competing.n > 0
                  \/ arg.competition_analysis.recommendation = "skip"

C8_Witness ==
    /\ ret.fn = "should_proceed"
    /\ arg.competition_analysis = CompDict(PyInt(0), "skip")
    /\ ret.result = "skip"

\* C9: on missing or malformed competition data (absent, not an object, an
\* empty object, or an object whose count or recommendation is missing or of
\* the wrong type) should_proceed answers "continue", unless the other,
\* well-formed field asks for a skip by itself.
Malformed(c) ==
    \/ c.kind \in {"absent", "nondict"}
    \/ c.competing.t \in {"missing", "null", "str", "bool"}
    \/ c.recommendation \in {"<missing>", "<null>"}

AsksForSkip(c) ==
    /\ c.kind = "dict"
    /\ \/ c.competing.t = "int" /\ c.competing.n > 0
       \/ c.recommendation = "skip"

C9_MalformedContinues ==
    (/\ ret.fn = "should_proceed"
     /\ Malformed(arg.competition_analysis)
     /\ ~AsksForSkip(arg.competition_analysis))
      => ret.result = "continue"

\* C10: is_approved answers "execute" when human_approved is true and
\* "rejected" when it is false or absent, whatever the phase and the other
\* fields are, and leaves the state it was given as it was.
C10_IsApprovedPure ==
    ret.fn = "is_approved"
      => ret.result = (IF arg.human_approved = "true" THEN "execute"
                       ELSE "rejected")

C10_Witness ==
    /\ ret.fn = "is_approved"
    /\ arg.human_approved = "absent"
    /\ arg.phase = "D"
    /\ ret.result = "rejected"

\* ------------------------------------------------------- handlers' effects
\* A step of approve_execution creates a task of kind "resume"; a step of
\* reject_execution counts an update and creates no task.
ApproveStep(i) ==
    /\ nRuns' = nRuns + 1
    /\ runs'[nRuns'].kind = "resume"
    /\ runs'[nRuns'].id = i

RejectStep == nUpdates' = nUpdates + 1 /\ nRuns' = nRuns

C12_ApproveWritesFlagOnly ==
    [][\A i \in Ids :
         (ApproveStep(i) /\ ckpt[i].last # "none")
           => /\ nUpdates' = nUpdates + 1
              /\ ckpt'[i].vals =
                   [ckpt[i].vals EXCEPT !.human_approved = "true"]]_vars

\* C13: a call of reject leaves human_approved false, phase F and outcome
\* "rejected" in the stored snapshot of the instance it names, creates no
\* task and runs no node, and leaves execution_result as it was.
C13_RejectSetsOutcome ==
    [][RejectStep
         => /\ runs' = runs
            /\ \E i \in Ids :
                 /\ ckpt'[i].vals.human_approved = "false"
                 /\ ckpt'[i].vals.phase = "F"
                 /\ Stored(ckpt'[i].vals, "outcome") = "rejected"
                 /\ ckpt'[i].vals.execution_result
                      = ckpt[i].vals.execution_result]_vars

\* An instance is started once start_bounty_workflow was called for it.
Started(i) == \E k \in RunIds : runs[k].kind = "init" /\ runs[k].id = i

\* C14: for an instance id that was never started, get_status answers with
\* the not-found status (404) and never with a normal status such as
\* current node "complete", and record_outcome does not answer "recorded".
C14_UnknownIdNotFound ==
    \A i \in Ids :
        ~Started(i)
          => /\ get_bounty_status(i).status_code = 404
             /\ get_bounty_status(i).current_node # "complete"
             /\ \A outcome \in Outcomes :
                  record_outcome_response(
                      database_url,
                      record_submission_outcome(
                          bounty_item(database_url, i), outcome, FALSE,
                          "learn_a", "lesson_1")).status # "recorded"

\* C15: get_status reports the pending node of the instance's checkpoint as
\* the current node, and "complete" exactly when nothing is pending; while
\* the approval node is pending it reports "approval".
C15_StatusReportsPendingNode ==
    \A i \in Ids :
        /\ get_bounty_status(i).status_code = 200
        /\ get_bounty_status(i).current_node = "complete"
             <=> ckpt[i].next = "none"
        /\ ckpt[i].next # "none"
             => get_bounty_status(i).current_node = ckpt[i].next
        /\ ckpt[i].next = "approval"
             => get_bounty_status(i).current_node = "approval"

C15_Witness ==
    \E i, j \in Ids :
        /\ ckpt[i].next = "approval"
        /\ ckpt[i].vals.phase = "C"
        /\ get_bounty_status(i).current_node = "approval"
        /\ ckpt[j].last = "approval"
        /\ ckpt[j].vals.phase = "C"
        /\ get_bounty_status(j).current_node = "complete"

\* A step of start_bounty_workflow creates a task of kind "init".
StartStep(i) ==
    /\ nRuns' = nRuns + 1
    /\ runs'[nRuns'].kind = "init"
    /\ runs'[nRuns'].id = i

FreshInstance(vals) ==
    /\ vals.phase = "A"
    /\ vals.human_approved = "false"
    /\ vals.issue_details = EmptyDict
    /\ vals.competition_analysis = EmptyDict
    /\ vals.implementation_plan = EmptyDict
    /\ vals.execution_result = EmptyDict

\* C16: start hands the engine an instance at phase A with human_approved
\* false and empty issue_details, competition_analysis, implementation_plan
\* and execution_result, and returns its session identifier while the task
\* is only queued (no node has run, no checkpoint was touched); the task
\* then begins with that instance as the thread's checkpoint and the
\* analyze node pending.
C16_StartCreatesAtPhaseA ==
    [][\A i \in Ids :
         /\ StartStep(i)
              => /\ runs'[nRuns'].st = "queued"
                 /\ runs'[nRuns'].path = <<>>
                 /\ runs'[nRuns'].reqs = <<>>
                 /\ FreshInstance(runs'[nRuns'].vals)
                 /\ runs'[nRuns'].vals.session_id = nRuns'
                 /\ ckpt' = ckpt
                 /\ \A k \in 1..nRuns : runs'[k] = runs[k]
         /\ \A k \in RunIds :
              (/\ runs[k].kind = "init"
               /\ runs[k].id = i
               /\ runs[k].st = "queued"
               /\ runs'[k].st # "queued")
                => /\ Pending(k, "analyze")'
                   /\ runs'[k].path = <<>>
                   /\ ckpt'[i].exists
                   /\ FreshInstance(ckpt'[i].vals)
                   /\ ckpt'[i].vals.session_id = runs[k].vals.session_id
                   /\ ckpt'[i].next = "analyze"]_vars

C16_Witness ==
    \E k \in RunIds :
        /\ runs[k].kind = "init"
        /\ Pending(k, "analyze")
        /\ FreshInstance(ckpt[runs[k].id].vals)
        /\ ckpt[runs[k].id].next = "analyze"
        /\ get_bounty_status(runs[k].id).phase = "A"

\* C17: when a node of a task completes without error, the thread's
\* checkpoint holds the state the node returned together with the node that
\* follows it, which is where the task goes on; a task resumed from the
\* checkpoint takes the checkpoint's state, begins at its pending node (a
\* node after the one that wrote the checkpoint) or ends at once when none
\* is pending, and no task runs a node twice.
C17_CheckpointAfterEachNode ==
    [][\A k \in RunIds :
         LET i == runs[k].id
             n == runs[k].node
         IN /\ (runs[k].st = "running" /\ runs'[k].path # runs[k].path)
                 => /\ runs'[k].path = Append(runs[k].path, n)
                    /\ n \notin Range(runs[k].path)
                    /\ ckpt'[i].exists
                    /\ ckpt'[i].last = n
                    /\ ckpt'[i].next = Successor(n, ckpt'[i].vals)
                    /\ IF ckpt'[i].next = "none"
                       THEN runs'[k].st = "done"
                       ELSE /\ runs'[k].st = "running"
                            /\ runs'[k].node = ckpt'[i].next
                            /\ runs'[k].vals = ckpt'[i].vals
            /\ (/\ runs[k].kind = "resume"
                /\ runs[k].st = "queued"
                /\ runs'[k].st # "queued")
                 => /\ runs'[k].path = <<>>
                    /\ ckpt'[i] = ckpt[i]
                    /\ IF ckpt[i].next = "none"
                       THEN runs'[k].st = "done"
                       ELSE /\ runs'[k].st = "running"
                            /\ runs'[k].node = ckpt[i].next
                            /\ runs'[k].vals = ckpt[i].vals
                            /\ NodeRank(runs'[k].node)
                                 > NodeRank(ckpt[i].last)]_vars

C17_Witness ==
    \E k \in RunIds :
        /\ runs[k].kind = "resume"
        /\ runs[k].st = "done"
        /\ runs[k].path = <<"execute">>
        /\ ckpt[runs[k].id].last = "execute"
        /\ ckpt[runs[k].id].vals.phase = "E"
        /\ ckpt[runs[k].id].vals.implementation_plan = DataDict

\* A step of approve_execution or reject_execution counts one update.
UpdateStep == nUpdates' = nUpdates + 1

\* C18: the update made by approve or reject on a started instance changes
\* only the fields it was given (human_approved and phase): every other
\* field of the stored snapshot and the checkpoint's pending node stay as
\* they were.
C18_UpdateChangesOnlyGivenFields ==
    [][UpdateStep
         => \A i \in Ids :
              ckpt[i].last # "none"
                => /\ \A key \in Channels \ {"human_approved", "phase"} :
                        ckpt'[i].vals[key] = ckpt[i].vals[key]
                   /\ ckpt'[i].next = ckpt[i].next]_vars

\* A task of instance i moves: it begins, runs a node or ends.
TaskStep(i) ==
    \E k \in RunIds :
        /\ runs[k].id = i
        /\ runs[k].st \in {"queued", "running"}
        /\ runs'[k] # runs[k]

\* C19: instances with different ids are independent: a start, a node step
\* or an approve for instance i leaves the checkpoint (snapshot and pending
\* node) of every other instance as it was, a reject changes the checkpoint
\* of one instance at most, and what get_status answers for an instance
\* changes only when that instance's own checkpoint does.
C19_InstancesIndependent ==
    [][\A i \in Ids : \A j \in Ids \ {i} :
         /\ (StartStep(i) \/ ApproveStep(i) \/ TaskStep(i))
              => ckpt'[j] = ckpt[j]
         /\ RejectStep => (ckpt'[i] = ckpt[i] \/ ckpt'[j] = ckpt[j])
         /\ ckpt'[j] = ckpt[j]
              => get_bounty_status(j)' = get_bounty_status(j)]_vars

C19_Witness ==
    /\ Started("b1") /\ Started("b2")
    /\ ckpt["b1"].last = "create_plan"
    /\ ckpt["b1"].vals.phase = "C"
    /\ ckpt["b1"].vals.human_approved = "false"
    /\ ckpt["b2"].last = "analyze"
    /\ ckpt["b2"].vals.phase = "F"
    /\ ckpt["b2"].next = "check_competition"

\* A task of instance i completes or fails a node.
NodeStep(i) == \E k \in RunIds : runs[k].id = i /\ Stepped(k)

\* C20: no node step changes the stored human_approved of its instance; in
\* particular a node of a task that read the state before an approve does
\* not write its older value over the approval.
C20_ApprovedSetOnlyByApproveReject ==
    [][\A i \in Ids :
         NodeStep(i)
           => ckpt'[i].vals.human_approved
                = ckpt[i].vals.human_approved]_vars

\* C21: is_stale(last_synced, days) is true exactly when last_synced is
\* absent, cannot be parsed, or lies more than `days` days before now, with
\* days = 7 when it is not given: a stamp of now is not stale, one 8 days
\* old is (at 7 days), and one exactly `days` days old is not.
C21_IsStaleIff ==
    ret.fn = "is_stale"
      => /\ ret.result
              <=> \/ arg.last_synced = NoStamp
                  \/ arg.last_synced = BadStamp
                  \/ now - arg.last_synced > ret.days
         /\ arg.last_synced = now => ~ret.result
         /\ (arg.last_synced >= 0 /\ now - arg.last_synced = ret.days)
              => ~ret.result
         /\ (ret.days = 7 /\ arg.last_synced >= 0
               /\ now - arg.last_synced = 8) => ret.result

C21_Witness ==
    /\ ret.fn = "is_stale"
    /\ ret.days = 7
    /\ arg.last_synced >= 0
    /\ now - arg.last_synced = 7
    /\ ~ret.result


\* C22: for every executor reply that carries an object response, a
\* response that is not an object, no response key, or an error reply, and
\* from every store the system can be in, sync_repo_knowledge does not
\* raise, returns the target's key, and leaves under that key a profile
\* stamped with the current time; a response that is not an object is
\* stored as an empty body.
C22_SyncNeverRaises ==
    \A u \in SyncUrls, reply \in SyncReplies :
        LET out == sync_repo_knowledge(repos, TRUE, u, reply, now)
        IN /\ ~out.raised
           /\ out.key = RepoId(u)
           /\ out.store[out.key].exists
           /\ out.store[out.key].last_synced = now
           /\ reply.body.kind # "dict"
                => out.store[out.key].body = EmptyDict
           /\ reply = OkReply(DataDict)
                => out.store[out.key].body = DataDict
           /\ \A key \in StoreKeys \ {out.key} :
                out.store[key] = repos[key]

\* C22 witness: a sync has run against the durable store and the profile it
\* wrote, stamped with the current time, has an empty body.
C22_Witness ==
    /\ database_url
    /\ nSyncs = 1
    /\ \E key \in StoreKeys :
         /\ repos[key].exists
         /\ repos[key].last_synced = now
         /\ repos[key].body = EmptyDict


\* An instance the system knows: started through the workflow, or saved in
\* the store's bounties namespace.
Known(i) == Started(i) \/ bounties[i].exists

\* The last call was record_outcome(i, "rejected") with feedback text, on a
\* known instance, and the handler accepted it.
RejectionRecorded ==
    /\ ret.fn = "record_outcome"
    /\ ret.outcome = "rejected"
    /\ ret.feedback
    /\ Known(ret.id)
    /\ ret.result.status = "recorded"

RECURSIVE Occurrences(_, _)
Occurrences(s, x) ==
    IF s = <<>> THEN 0
    ELSE (IF Head(s) = x THEN 1 ELSE 0) + Occurrences(Tail(s), x)

\* A step of the record_outcome handler.
OutcomeStep == nOutcomes' = nOutcomes + 1 /\ ret'.fn = "record_outcome"

C25_LearningsAppendOnly ==
    [][\A slot \in DOMAIN learnings :
         learnings[slot] # NoLearning
           => learnings'[slot] = learnings[slot]]_vars


\* The learnings of a category that a step has created.
NewLearnings(category) ==
    {key \in LearningKeys :
        /\ learnings[category, key] = NoLearning
        /\ learnings'[category, key] # NoLearning}

\* C26: a record_outcome call on a known instance with outcome "merged"
\* creates exactly one learning under successes and none under rejections,
\* and one with outcome "rejected" and feedback text creates exactly one
\* under rejections and none under successes.
C26_OneLearningInMatchingCategory ==
    [][(OutcomeStep /\ Known(ret'.id))
         => /\ ret'.outcome = "merged"
                 => /\ Cardinality(NewLearnings("successes")) = 1
                    /\ NewLearnings("rejections") = {}
            /\ (ret'.outcome = "rejected" /\ ret'.feedback)
                 => /\ Cardinality(NewLearnings("rejections")) = 1
                    /\ NewLearnings("successes") = {}]_vars


\* After the step the instance record holds the reported outcome and the
\* terminal phase.
Closed(i, outcome) ==
    /\ bounties'[i].exists
    /\ bounties'[i].outcome = outcome
    /\ bounties'[i].phase = "F"

\* What a stale or abandoned outcome leaves alone: the call creates no
\* learning, makes no executor call and leaves every repository profile as
\* it was.
StaleOutcomeFrame ==
    [][(OutcomeStep /\ ret'.outcome \in {"stale", "abandoned"})
         => /\ learnings' = learnings
            /\ repos' = repos
            /\ ret'.calls = 0]_vars

\* C27: a record_outcome call on a known instance with outcome "stale" or
\* "abandoned" creates no learning, makes no executor call, leaves every
\* repository profile as it was, and updates the instance record, which
\* then holds the outcome.
C27_StaleUpdatesInstanceOnly ==
    [][(OutcomeStep /\ Known(ret'.id)
          /\ ret'.outcome \in {"stale", "abandoned"})
         => /\ learnings' = learnings
            /\ repos' = repos
            /\ ret'.calls = 0
            /\ Closed(ret'.id, ret'.outcome)]_vars

\* C28: after a record_outcome call with any outcome, with or without
\* feedback, on an instance that was started through the workflow, the
\* instance record holds that outcome and phase F.
C28_OutcomeClosesInstance ==
    [][(OutcomeStep /\ Started(ret'.id))
         => Closed(ret'.id, ret'.outcome)]_vars


\* A step of the /api/repos/sync handler.
SyncStep == nSyncs' = nSyncs + 1

\* C29: while no DATABASE_URL is configured, a call of the sync handler
\* and a call of record_outcome are answered with the store-unconfigured
\* status (503) and leave every store namespace as it was.
C29_UnconfiguredFailsFast ==
    [][~database_url
         => /\ SyncStep
                 => /\ sync_repo_response(database_url).status_code = 503
                    /\ repos' = repos
            /\ OutcomeStep
                 => /\ ret'.result.status_code = 503
                    /\ UNCHANGED <<repos, learnings, bounties>>]_vars


\* C30: every analyze step on a started instance makes the node's executor
\* call, whatever happened to the profile lookup, the sync and the learnings
\* search; and unless that call itself raised, the step leaves the thread's
\* checkpoint written by analyze with the analysis stored and phase B.
C30_EnrichmentFailureNotFatal ==
    [][\A k \in RunIds :
         (Stepped(k) /\ runs[k].node = "analyze"
            /\ runs[k].vals.ids # "absent")
           => /\ "analyze" \in CallPrompts(runs'[k].reqs)
              /\ runs'[k].st # "failed"
                   => /\ ckpt'[runs[k].id].last = "analyze"
                      /\ ckpt'[runs[k].id].vals.phase = "B"
                      /\ ckpt'[runs[k].id].vals.issue_details.kind
                           # "absent"]_vars


\* The order in which _build_graph wires the phase nodes.
NodeOrder ==
    <<"analyze", "check_competition", "create_plan", "approval", "execute">>

\* How many times the tasks of instance i have executed node n.
RECURSIVE Executions(_, _, _)
Executions(i, n, k) ==
    IF k = 0 THEN 0
    ELSE (IF runs[k].id = i THEN Occurrences(runs[k].path, n) ELSE 0)
           + Executions(i, n, k - 1)

\* start was called at most once for instance i.
StartedOnce(i) ==
    Cardinality({k \in RunIds : runs[k].kind = "init" /\ runs[k].id = i}) <= 1

\* C31: the nodes the task begun by start has executed are a prefix of
\* analyze, check_competition, create_plan, approval, execute; the nodes any
\* task has executed are consecutive in that order; a node other than
\* analyze has run only if its predecessor has completed for the instance;
\* and no node has run more than once for an instance that was started
\* once.
C31_NodesRunInOrderOnce ==
    /\ \A k \in RunIds :
         /\ \A j \in 1..(Len(runs[k].path) - 1) :
              NodeRank(runs[k].path[j + 1]) = NodeRank(runs[k].path[j]) + 1
         /\ (runs[k].kind = "init" /\ runs[k].path # <<>>)
              => runs[k].path[1] = "analyze"
         /\ \A j \in 1..Len(runs[k].path) :
              NodeRank(runs[k].path[j]) > 1
                => Executions(runs[k].id,
                              NodeOrder[NodeRank(runs[k].path[j]) - 1],
                              MaxRuns) >= 1
    /\ \A i \in Ids, j \in 1..Len(NodeOrder) :
         StartedOnce(i) => Executions(i, NodeOrder[j], MaxRuns) <= 1


\* C32: one execution of a phase node adds at most one call to the task's
\* executor calls, also when the node is analyze and the cached profile is
\* missing or stale.
C32_AtMostOneExecutorCall ==
    [][\A k \in RunIds :
         Stepped(k) => Len(runs'[k].reqs) <= Len(runs[k].reqs) + 1]_vars


C34_FailedCheckNeverProceeds ==
    [][\A k \in RunIds :
         (Stepped(k) /\ runs[k].node = "check_competition"
            /\ runs'[k].node = "create_plan")
           => /\ nFaults' = nFaults
              /\ runs'[k].vals.competition_analysis.kind = "dict"
              /\ PyEqZero(runs'[k].vals.competition_analysis.competing)
              /\ runs'[k].vals.competition_analysis.recommendation
                   # "skip"]_vars


\* A step of the analyze node of task k that returned.
AnalyzeDone(k) ==
    /\ Stepped(k)
    /\ runs[k].node = "analyze"
    /\ runs'[k].path = Append(runs[k].path, "analyze")

\* The step of task k made the knowledge-sync executor call.
Synced(k) == Len(runs'[k].reqs) = Len(runs[k].reqs) + 2

\* C35: when an analyze step syncs and neither the store nor the executor
\* fails, the profile is stored under the instance's repo_id and the
\* read-back that follows finds it; and an analyze step does not sync when
\* a profile for the repository was stored within the staleness threshold.
C35_SyncKeyIsTargetKey ==
    [][\A k \in RunIds :
         (AnalyzeDone(k) /\ database_url /\ nFaults' = nFaults)
           => /\ Synced(k)
                   => /\ repos'[RepoId(Repo)].exists
                      /\ ckpt'[runs[k].id].vals.repo_profile.key # "None"
              /\ (\E key \in StoreKeys :
                    /\ repos[key].exists
                    /\ ~is_stale(repos[key].last_synced, StaleAfterDays, now))
                   => ~Synced(k)]_vars


\* C36: for every instance with a checkpointed snapshot the store holds a
\* record under bounties/{id} with the same phase, and an instance whose
\* store record holds an outcome has phase F in its snapshot.
C36_StoreAndCheckpointAgree ==
    \A i \in Ids :
        /\ ckpt[thread_id(i)].exists
             => /\ bounties[i].exists
                /\ bounties[i].phase = ckpt[thread_id(i)].vals.phase
        /\ (bounties[i].exists /\ bounties[i].outcome # "none")
             => ckpt[thread_id(i)].vals.phase = "F"


\* C37: a started instance whose stored phase is D or E has been through a
\* completed create_plan step, and a task at the execute node of such an
\* instance works on a state that holds a plan.
C37_ApprovedHasPlan ==
    \A i \in Ids :
        Started(i)
          => /\ ckpt[thread_id(i)].vals.phase \in {"D", "E"}
                  => Executions(thread_id(i), "create_plan", MaxRuns) >= 1
             /\ \A k \in RunIds :
                  (runs[k].id = thread_id(i) /\ Pending(k, "execute"))
                    => Executions(thread_id(i), "create_plan", MaxRuns) >= 1


\* The session identifier start_bounty_workflow returned for the task it
\* created (the task's number stands for the uuid part).
StartSession(k) == k

\* C38: the identifying fields of a started instance's snapshot do not
\* change, and every executor call of a task begun by start carries the
\* session_id that start returned.
C38_IdentityAndSessionKept ==
    [][\A i \in Ids :
         /\ (ckpt[i].exists /\ ckpt[i].vals.ids = "set")
              => /\ ckpt'[i].vals.ids = ckpt[i].vals.ids
                 /\ ckpt'[i].vals.session_id = ckpt[i].vals.session_id
         /\ \A k \in RunIds :
              (runs'[k].kind = "init" /\ runs'[k].id = i)
                => \A j \in DOMAIN runs'[k].reqs :
                     runs'[k].reqs[j].session_id = StartSession(k)]_vars


\* C39: when a task executes the execute node on an instance whose
\* repo_profile is absent and the executor call does not fail, the step
\* completes, makes the implementation call, and leaves execution_result
\* populated and phase E in the checkpoint.
C39_ExecuteWithoutProfile ==
    [][\A k \in RunIds :
         (Stepped(k) /\ runs[k].node = "execute"
            /\ runs[k].vals.ids = "set"
            /\ runs[k].vals.repo_profile.key = "None"
            /\ nFaults' = nFaults)
           => /\ runs'[k].st = "done"
              /\ "implement" \in CallPrompts(runs'[k].reqs)
              /\ ckpt'[runs[k].id].last = "execute"
              /\ ckpt'[runs[k].id].vals.phase = "E"
              /\ ckpt'[runs[k].id].vals.execution_result.kind = "dict"]_vars

\* The identifying fields of a snapshot stay as they are for an instance
\* that was started once.
IdentityKept ==
    [][\A i \in Ids :
         (ckpt[i].exists /\ ckpt[i].vals.ids = "set" /\ StartedOnce(i)')
           => /\ ckpt'[i].vals.ids = ckpt[i].vals.ids
              /\ ckpt'[i].vals.session_id = ckpt[i].vals.session_id]_vars

====
